---- MODULE Spec2Model ----
(***************************************************************************)
(* Snitchvis (src/main.py): the startup indexing protocol of the bot.      *)
(*                                                                         *)
(* The bot is an asyncio program.  A coroutine runs without interruption   *)
(* until it awaits something that really suspends (a request to discord);  *)
(* the db calls and Event.parse are synchronous, and Queue.get() on a      *)
(* non-empty queue returns without suspending.  Each action below is one   *)
(* such uninterrupted stretch of a handler, from one suspension to the     *)
(* next.  The drain loop of on_ready (lines 81-87) never suspends: it is    *)
(* shown one iteration per action, and no other handler runs meanwhile     *)
(* (LoopFree).  Messages are created on the discord server (Send) and      *)
(* reach on_message later, in creation order, over the gateway.  They are   *)
(* the messages that are not commands, on which super().on_message returns *)
(* without suspending; a command is an action of its own.  on_ready is     *)
(* called once in the life of the process.  The db module is not part of   *)
(* the source at hand: its calls are modelled as the design describes the  *)
(* tables (rows appended in insertion order, a cursor that is set).        *)
(*                                                                         *)
(* The render command is the second part: the resolution of its time       *)
(* window, its checks, and the usage it records.  Times are seconds; the   *)
(* host's clock is UTC, so that datetime.utcnow().timestamp() and          *)
(* datetime.now().timestamp() are one clock.  --export is not passed.      *)
(***************************************************************************)
EXTENDS Integers, Sequences, FiniteSets, TLC

\* ------------------------------------------------------------------ bounds
\* Messages ever created on the server.
MaxMsgs == 2
\* `.index` commands ever issued.
MaxIndexCmds == 1
\* `.render` commands ever issued.
MaxRenders == 2
\* Times the clock is seen to have advanced.
MaxTicks == 1
\* `.render --past all` commands ever issued, where only those are issued.
MaxAdmissions == 3
MaxReindex == 1

\* ------------------------------------------------------------ the world
Channels == {"c1", "c2"}
Guilds == {"g1", "g2"}

\* The order in which db.get_snitch_channels returns the rows.
ChannelOrder == <<"c1", "c2">>

\* The servers the bot is set up on: which channels are snitch channels, on
\* which of them the bot has read_messages, and each channel's guild.
Setups ==
    { [snitch |-> {"c1", "c2"}, readable |-> {"c1", "c2"},
       guild |-> [c \in Channels |-> "g1"]],
      [snitch |-> {"c1", "c2"}, readable |-> {"c1"},
       guild |-> [c \in Channels |-> "g1"]],
      [snitch |-> {"c1"}, readable |-> {"c1", "c2"},
       guild |-> [c \in Channels |-> "g1"]] }

\* last_indexed_id = null.  Message ids are positive, so the code's
\* truthiness tests (`not last_indexed_id`, `if last_id`) are tests against it.
Null == 0

VARIABLES
    sent,             \* the server's messages: sent[i] is the message with id i
    delivered,        \* ids <= delivered have been dispatched to on_message
    readable,         \* channels on which the bot has read_messages
    snitch_channels,  \* rows of table snitch_channel
    guild,            \* channel.guild, per channel
    last_indexed_id,  \* snitch_channel.last_indexed_id, per channel
    events,           \* table event, in insertion order: rows [channel, id]
    dirty,            \* the db connection holds uncommitted writes
    defer_indexing,   \* self.defer_indexing
    indexing_queue,   \* self.indexing_queue
    ready,            \* the on_ready coroutine
    cmd,              \* the coroutine of the `.index` command
    ncmds,            \* `.index` commands issued so far
    enqueued,         \* history: ids put on indexing_queue, in order
    drained,          \* history: ids the drain loop gave to maybe_index_message
    live,             \* history: ids on_message gave to maybe_index_message
    rendering,        \* all that the render command reads and writes (below)
    reindex           \* history: the `.full-reindex` commands issued so far

vars == <<sent, delivered, readable, snitch_channels, guild,
          last_indexed_id, events, dirty, defer_indexing, indexing_queue,
          ready, cmd, ncmds, enqueued, drained, live, rendering,
          reindex>>

world == <<sent, delivered, readable, snitch_channels, guild>>
setup == <<readable, snitch_channels, guild>>
database == <<last_indexed_id, events, dirty>>
histories == <<enqueued, drained, live>>

\* The fields of rendering.
clock == rendering.clock                    \* the host's clock, in seconds
render_history == rendering.render_history  \* table render_history, in order
renders == rendering.renders                \* the commands waiting for a video
nrenders == rendering.nrenders              \* `.render` commands issued so far
nticks == rendering.nticks                  \* times the clock advanced so far
nfailed == rendering.nfailed                \* history: commands ended by an error
last_render == rendering.last_render        \* history: the latest `.render`
indexing == <<world, database, defer_indexing, indexing_queue, ready, cmd,
              ncmds, histories, reindex>>

\* ------------------------------------------------------------- helpers
Ids == 1..Len(sent)

Message(i) == sent[i]

\* discord_channel.history(): the ids of the channel's messages, newest first.
RECURSIVE HistoryUpTo(_, _)
HistoryUpTo(c, n) ==
    IF n = 0 THEN <<>>
    ELSE IF sent[n].channel = c THEN <<n>> \o HistoryUpTo(c, n - 1)
    ELSE HistoryUpTo(c, n - 1)

history(c) == HistoryUpTo(c, Len(sent))

\* history(limit=1) answered oldest first.
history_oldest_1(c) ==
    IF history(c) = <<>> THEN <<>> ELSE <<history(c)[Len(history(c))]>>

\* discord_channel.history(limit=1).flatten()
history_limit_1(c) == SubSeq(history(c), 1, IF history(c) = <<>> THEN 0 ELSE 1)

\* Event.parse succeeds on the message.
Parses(i) == sent[i].event

\* db.get_snitch_channels(guild): the rows as read now, each a record that
\* keeps the last_indexed_id it was read with.  guild = "all" is None.
RECURSIVE RowsFrom(_, _)
RowsFrom(order, g) ==
    IF order = <<>> THEN <<>>
    ELSE LET c == Head(order)
             rest == RowsFrom(Tail(order), g)
         IN IF c \in snitch_channels /\ (g = "all" \/ guild[c] = g)
            THEN <<[id |-> c, last_indexed_id |-> last_indexed_id[c]]>> \o rest
            ELSE rest

get_snitch_channels(g) == RowsFrom(ChannelOrder, g)

\* The number of rows of table event for one message.
RECURSIVE CountRows(_, _, _)
CountRows(evs, c, i) ==
    IF evs = <<>> THEN 0
    ELSE (IF Head(evs) = [channel |-> c, id |-> i] THEN 1 ELSE 0)
         + CountRows(Tail(evs), c, i)

EventCount(c, i) == CountRows(events, c, i)

\* A coroutine that is not inside index_channel.
Task(pc, todo) == [pc |-> pc, todo |-> todo, found |-> <<>>, newest |-> <<>>,
                   indexed |-> {}]

\* The gateway connection is up.
Connected == ready.pc # "init"

\* No handler is in the middle of a stretch that does not suspend.
LoopFree == ready.pc # "drain"

\* ---------------------------------------------------------------- db
\* db.add_event: a row is appended; nothing makes a row unique.
add_event(evs, c, i) == Append(evs, [channel |-> c, id |-> i])

\* index_channel, lines 138-140: db.add_event for each event found, in order.
RECURSIVE add_events(_, _, _)
add_events(evs, c, ids) ==
    IF ids = <<>> THEN evs
    ELSE add_events(add_event(evs, c, Head(ids)), c, Tail(ids))

\* db.update_last_indexed: the cursor is set to the id it is given.
update_last_indexed(cur, c, i) == [cur EXCEPT ![c] = i]

\* DELETE FROM event with no WHERE clause.
delete_events_all(evs, g) == <<>>

\* Line 387, DELETE FROM event WHERE guild_id = ?: the rows of the other
\* guilds stay, in their order.
delete_events(evs, g) == SelectSeq(evs, LAMBDA row : guild[row.channel] # g)

\* Lines 389-390, UPDATE snitch_channel SET last_indexed_id = null WHERE
\* guild_id = ?
reset_last_indexed(cur, g) ==
    [c \in Channels |-> IF guild[c] = g THEN Null ELSE cur[c]]

\* ------------------------------------------------------- live processing
\* maybe_index_message without the test of last_indexed_id.
maybe_index_message_any_cursor(i) ==
    LET c == Message(i).channel IN
    IF c \notin snitch_channels
    THEN UNCHANGED database
    ELSE IF ~Parses(i)
    THEN UNCHANGED database
    ELSE /\ events' = add_event(events, c, i)
         /\ last_indexed_id' = update_last_indexed(last_indexed_id, c, i)
         /\ dirty' = FALSE

\* maybe_index_message that adds the event and leaves the cursor.
maybe_index_message_keeps_cursor(i) ==
    LET c == Message(i).channel IN
    IF c \notin snitch_channels \/ last_indexed_id[c] = Null
    THEN UNCHANGED database
    ELSE IF ~Parses(i)
    THEN UNCHANGED database
    ELSE /\ events' = add_event(events, c, i)
         /\ UNCHANGED last_indexed_id
         /\ dirty' = FALSE

\* maybe_index_message that moves the cursor to a message that does not
\* match, as index_channel does for the newest message.
maybe_index_message_marks_seen(i) ==
    LET c == Message(i).channel IN
    IF c \notin snitch_channels \/ last_indexed_id[c] = Null
    THEN UNCHANGED database
    ELSE IF ~Parses(i)
    THEN /\ last_indexed_id' = update_last_indexed(last_indexed_id, c, i)
         /\ UNCHANGED <<events, dirty>>
    ELSE /\ events' = add_event(events, c, i)
         /\ last_indexed_id' = update_last_indexed(last_indexed_id, c, i)
         /\ dirty' = FALSE

\* maybe_index_message(message), lines 96-113.
maybe_index_message(i) ==
    LET c == Message(i).channel IN
    IF c \notin snitch_channels \/ last_indexed_id[c] = Null
    THEN UNCHANGED database
    ELSE IF ~Parses(i)
    THEN UNCHANGED database
    ELSE /\ events' = add_event(events, c, i)
         /\ last_indexed_id' = update_last_indexed(last_indexed_id, c, i)
         /\ dirty' = FALSE

\* ---------------------------------------------------------- index_channel
\* The loop over history that stops only below last_id: the message at
\* last_id is scanned again.
RECURSIVE scan_inclusive(_, _)
scan_inclusive(hist, last_id) ==
    IF hist = <<>> THEN <<>>
    ELSE IF last_id # Null /\ Head(hist) < last_id THEN <<>>
    ELSE IF ~Parses(Head(hist)) THEN scan_inclusive(Tail(hist), last_id)
    ELSE <<Head(hist)>> \o scan_inclusive(Tail(hist), last_id)

\* Lines 118-130: the loop over history, newest first, that stops at the
\* first message at or below last_id and keeps the messages that parse.
RECURSIVE scan(_, _)
scan(hist, last_id) ==
    IF hist = <<>> THEN <<>>
    ELSE IF last_id # Null /\ Head(hist) <= last_id THEN <<>>
    ELSE IF ~Parses(Head(hist)) THEN scan(Tail(hist), last_id)
    ELSE <<Head(hist)>> \o scan(Tail(hist), last_id)

\* Lines 134-136: the cursor after the newest-message lookup.
index_cursor(cur, c, last_messages) ==
    IF last_messages # <<>>
    THEN update_last_indexed(cur, c, last_messages[1])
    ELSE cur

\* on_ready, lines 67-73: the channels without read_messages are skipped.
RECURSIVE skip_unreadable(_)
skip_unreadable(todo) ==
    IF todo = <<>> THEN <<>>
    ELSE IF Head(todo).id \notin readable THEN skip_unreadable(Tail(todo))
    ELSE todo

\* ------------------------------------------------------------ the server
\* A message is created in a channel; it matches the event grammar or not.
Send ==
    /\ Len(sent) < MaxMsgs
    /\ \E c \in Channels, e \in BOOLEAN :
          sent' = Append(sent, [channel |-> c, event |-> e])
    /\ UNCHANGED <<rendering, reindex>>
    /\ UNCHANGED <<delivered, setup, database, defer_indexing, indexing_queue,
                   ready, cmd, ncmds, histories>>

\* ------------------------------------------------------------- the queue
\* A queue that puts the new item in front.
queue_put_front(q, i) == <<i>> \o q

\* indexing_queue.put_nowait(message), line 94.
queue_put(q, i) == Append(q, i)

\* indexing_queue.get(), line 82, on a queue that is not empty.
queue_get(q) == Head(q)

\* ------------------------------------------------------------- on_message
\* on_message that never defers.
on_message_never_defers ==
    /\ Connected /\ LoopFree
    /\ delivered < Len(sent)
    /\ LET i == delivered + 1 IN
       /\ delivered' = i
       /\ maybe_index_message(i)
       /\ live' = Append(live, i)
       /\ UNCHANGED <<indexing_queue, enqueued>>
    /\ UNCHANGED <<rendering, reindex>>
    /\ UNCHANGED <<sent, setup, defer_indexing, ready, cmd, ncmds, drained>>

\* Lines 89-94, for the oldest message not yet dispatched.
on_message ==
    /\ Connected /\ LoopFree
    /\ delivered < Len(sent)
    /\ LET i == delivered + 1 IN
       /\ delivered' = i
       /\ IF ~defer_indexing
          THEN /\ maybe_index_message(i)
               /\ live' = Append(live, i)
               /\ UNCHANGED <<indexing_queue, enqueued>>
          ELSE /\ indexing_queue' = queue_put(indexing_queue, i)
               /\ enqueued' = Append(enqueued, i)
               /\ UNCHANGED <<database, live>>
    /\ UNCHANGED <<rendering, reindex>>
    /\ UNCHANGED <<sent, setup, defer_indexing, ready, cmd, ncmds, drained>>

\* --------------------------------------------------------------- on_ready
\* The loop of lines 67-74 left after its first channel.
ready_next_break(rows, done) ==
    IF done = {} /\ skip_unreadable(rows) # <<>>
    THEN /\ ready' = [Task("scan", skip_unreadable(rows)) EXCEPT !.indexed = done]
         /\ dirty' = (dirty \/ last_indexed_id' # last_indexed_id \/ events' # events)
    ELSE /\ ready' = [Task("drain", <<>>) EXCEPT !.indexed = done]
         /\ dirty' = FALSE

\* After a channel (or none yet): on to the next readable channel's history
\* request, the writes of lines 134-140 (commit=False) still uncommitted, or,
\* past the last one, db.commit() and into the drain loop.
ready_next(rows, done) ==
    LET todo == skip_unreadable(rows) IN
    IF todo # <<>>
    THEN /\ ready' = [Task("scan", todo) EXCEPT !.indexed = done]
         /\ dirty' = (dirty \/ last_indexed_id' # last_indexed_id \/ events' # events)
    ELSE /\ ready' = [Task("drain", <<>>) EXCEPT !.indexed = done]
         /\ dirty' = FALSE

\* Lines 60-61: the bot is connected, on_ready is called and awaits
\* super().on_ready().  The messages created while the bot was down are
\* never dispatched to it.
on_ready_start ==
    /\ ready.pc = "init"
    /\ ready' = Task("super", <<>>)
    /\ delivered' = Len(sent)
    /\ UNCHANGED <<rendering, reindex>>
    /\ UNCHANGED <<sent, setup, database, defer_indexing, indexing_queue, cmd,
                   ncmds, histories>>

\* Lines 65-74, to the first history request.
on_ready_defer ==
    /\ ready.pc = "super"
    /\ defer_indexing' = TRUE
    /\ UNCHANGED <<rendering, reindex>>
    /\ UNCHANGED <<world, last_indexed_id, events, indexing_queue, cmd, ncmds,
                   histories>>
    /\ ready_next(get_snitch_channels("all"), {})

\* index_channel adding each event to the table as the scan finds it.
on_ready_scan_persists ==
    /\ ready.pc = "scan" /\ LoopFree
    /\ LET row == Head(ready.todo) IN
       /\ events' = add_events(events, row.id,
                                scan(history(row.id), row.last_indexed_id))
       /\ ready' = [ready EXCEPT !.pc = "newest"]
    /\ UNCHANGED <<rendering, reindex>>
    /\ UNCHANGED <<world, last_indexed_id, dirty, defer_indexing,
                   indexing_queue, cmd, ncmds, histories>>

\* index_channel lines 118-132: the history arrives and is scanned.
on_ready_scan ==
    /\ ready.pc = "scan" /\ LoopFree
    /\ LET row == Head(ready.todo) IN
       ready' = [ready EXCEPT !.pc = "newest",
                              !.found = scan(history(row.id), row.last_indexed_id)]
    /\ UNCHANGED <<rendering, reindex>>
    /\ UNCHANGED <<world, database, defer_indexing, indexing_queue, cmd, ncmds,
                   histories>>

\* Line 132: the server answers history(limit=1).
on_ready_newest ==
    /\ ready.pc = "newest"
    /\ ready' = [ready EXCEPT !.pc = "write",
                              !.newest = history_limit_1(Head(ready.todo).id)]
    /\ UNCHANGED <<rendering, reindex>>
    /\ UNCHANGED <<world, database, defer_indexing, indexing_queue, cmd, ncmds,
                   histories>>

\* Lines 133-142, then the loop of lines 67-75 up to the next suspension.
on_ready_write ==
    /\ ready.pc = "write" /\ LoopFree
    /\ LET c == Head(ready.todo).id IN
       /\ last_indexed_id' = index_cursor(last_indexed_id, c, ready.newest)
       /\ events' = add_events(events, c, ready.found)
       /\ ready_next(Tail(ready.todo), ready.indexed \cup {c})
    /\ UNCHANGED <<rendering, reindex>>
    /\ UNCHANGED <<world, defer_indexing, indexing_queue, cmd, ncmds, histories>>

\* Lines 81-83: one iteration of the drain loop.
on_ready_drain ==
    /\ ready.pc = "drain"
    /\ indexing_queue # <<>>
    /\ LET i == queue_get(indexing_queue) IN
       /\ indexing_queue' = Tail(indexing_queue)
       /\ drained' = Append(drained, i)
       /\ maybe_index_message(i)
    /\ UNCHANGED <<rendering, reindex>>
    /\ UNCHANGED <<world, defer_indexing, ready, cmd, ncmds, enqueued, live>>

\* The drain loop left after one look at the queue, whatever is in it.
on_ready_live_snapshot ==
    /\ ready.pc = "drain"
    /\ defer_indexing' = FALSE
    /\ ready' = [ready EXCEPT !.pc = "done"]
    /\ UNCHANGED <<rendering, reindex>>
    /\ UNCHANGED <<world, database, indexing_queue, cmd, ncmds, histories>>

\* The drain loop left without line 87: the flag is never reset.
on_ready_live_keeps_deferring ==
    /\ ready.pc = "drain"
    /\ indexing_queue = <<>>
    /\ ready' = [ready EXCEPT !.pc = "done"]
    /\ UNCHANGED <<rendering, reindex>>
    /\ UNCHANGED <<world, database, defer_indexing, indexing_queue, cmd, ncmds,
                   histories>>

\* Lines 81 and 87: the queue is empty, indexing goes back to normal.
on_ready_live ==
    /\ ready.pc = "drain"
    /\ indexing_queue = <<>>
    /\ defer_indexing' = FALSE
    /\ ready' = [ready EXCEPT !.pc = "done"]
    /\ UNCHANGED <<rendering, reindex>>
    /\ UNCHANGED <<world, database, indexing_queue, cmd, ncmds, histories>>

\* index that leaves the unreadable channels out and backfills the others,
\* as on_ready does.
index_start_skips ==
    /\ Connected /\ LoopFree
    /\ cmd.pc = "idle" /\ ncmds < MaxIndexCmds
    /\ ncmds' = ncmds + 1
    /\ \E g \in Guilds :
          LET channels == SelectSeq(get_snitch_channels(g),
                                    LAMBDA row : row.id \in readable) IN
          cmd' = IF channels = <<>> THEN Task("idle", <<>>)
                 ELSE Task("scan", channels)
    /\ UNCHANGED <<rendering, reindex>>
    /\ UNCHANGED <<world, database, defer_indexing, indexing_queue, ready,
                   histories>>

\* ---------------------------------------------------------------- .index
\* Lines 328-354, to the first history request: the rows of the guild are
\* read; with no rows, or with a row the bot cannot read, the command ends.
index_start ==
    /\ Connected /\ LoopFree
    /\ cmd.pc = "idle" /\ ncmds < MaxIndexCmds
    /\ ncmds' = ncmds + 1
    /\ \E g \in Guilds :
          LET channels == get_snitch_channels(g) IN
          cmd' = IF channels = <<>> THEN Task("idle", <<>>)
                 ELSE IF \E k \in 1..Len(channels) : channels[k].id \notin readable
                 THEN Task("idle", <<>>)
                 ELSE Task("scan", channels)
    /\ UNCHANGED <<rendering, reindex>>
    /\ UNCHANGED <<world, database, defer_indexing, indexing_queue, ready,
                   histories>>

index_scan ==
    /\ cmd.pc = "scan" /\ LoopFree
    /\ LET row == Head(cmd.todo) IN
       cmd' = [cmd EXCEPT !.pc = "newest",
                          !.found = scan(history(row.id), row.last_indexed_id)]
    /\ UNCHANGED <<rendering, reindex>>
    /\ UNCHANGED <<world, database, defer_indexing, indexing_queue, ready,
                   ncmds, histories>>

index_newest ==
    /\ cmd.pc = "newest"
    /\ cmd' = [cmd EXCEPT !.pc = "write",
                          !.newest = history_limit_1(Head(cmd.todo).id)]
    /\ UNCHANGED <<rendering, reindex>>
    /\ UNCHANGED <<world, database, defer_indexing, indexing_queue, ready,
                   ncmds, histories>>

\* index_channel lines 133-142, then lines 355-360 and the next channel.
index_write ==
    /\ cmd.pc = "write" /\ LoopFree
    /\ LET c == Head(cmd.todo).id IN
       /\ last_indexed_id' = index_cursor(last_indexed_id, c, cmd.newest)
       /\ events' = add_events(events, c, cmd.found)
       /\ dirty' = FALSE
       /\ cmd' = IF Tail(cmd.todo) = <<>> THEN Task("idle", <<>>)
                 ELSE Task("scan", Tail(cmd.todo))
    /\ UNCHANGED <<rendering, reindex>>
    /\ UNCHANGED <<world, defer_indexing, indexing_queue, ready, ncmds,
                   histories>>

\* --------------------------------------------------------- .full-reindex
\* No `.full-reindex` was issued.
ReindexIdle == [n |-> 0, y |-> FALSE, guild |-> "none", before |-> <<>>]

\* Lines 375-392 and, in index, lines 328-354 to the first history request.
\* Without -y the command only answers.  With -y the events of the guild are
\* deleted and its cursors reset, and index is entered in the same stretch:
\* it reads the rows as they are now, and ends there when there is no row or
\* a row the bot cannot read.  full_reindex calls no db.commit of its own.
full_reindex ==
    /\ Connected /\ LoopFree
    /\ cmd.pc = "idle" /\ reindex.n < MaxReindex
    /\ \E g \in Guilds, y \in BOOLEAN :
          /\ reindex' = [n |-> reindex.n + 1, y |-> y, guild |-> g,
                         before |-> events]
          /\ IF ~y
             THEN UNCHANGED <<database, cmd>>
             ELSE /\ events' = delete_events(events, g)
                  /\ last_indexed_id' = reset_last_indexed(last_indexed_id, g)
                  /\ dirty' = (dirty \/ events' # events
                                     \/ last_indexed_id' # last_indexed_id)
                  /\ LET rows == get_snitch_channels(g)
                         channels ==
                             [k \in 1..Len(rows) |->
                                 [id |-> rows[k].id,
                                  last_indexed_id |->
                                      last_indexed_id'[rows[k].id]]]
                     IN cmd' = IF channels = <<>> THEN Task("idle", <<>>)
                               ELSE IF \E k \in 1..Len(channels) :
                                          channels[k].id \notin readable
                               THEN Task("idle", <<>>)
                               ELSE Task("scan", channels)
    /\ UNCHANGED rendering
    /\ UNCHANGED <<world, defer_indexing, indexing_queue, ready, ncmds,
                   histories>>

\* ---------------------------------------------------------------- .render
\* PIXEL_LIMIT_VIDEO (line 37) and PIXEL_LIMIT_DAY (line 42), in a unit in
\* which the costs of Costs straddle them.
PIXEL_LIMIT_VIDEO == 4
PIXEL_LIMIT_DAY == 6

\* timedelta(days=1), line 556, in seconds.
DAY == 86400

\* What the clock is seen to advance by: an hour, 25 hours.
Steps == {3600, 90000}

\* num_pixels = duration * fps * size * size (line 548), for the requests
\* made: at PIXEL_LIMIT_VIDEO and above it.
Costs == {4, 5}

\* An argument that was not passed is the empty list, one that was passed a
\* list of one value.  --start and --end after human_datetime, as timestamps.
None == <<>>
Dates == {None, <<500>>, <<2000>>}

\* --past after human_timedelta: not passed, "all", or a duration in seconds.
Pasts ==
    { [kind |-> "none", d |-> 0], [kind |-> "all", d |-> 0],
      [kind |-> "delta", d |-> 0], [kind |-> "delta", d |-> 600] }

\* `if past:` (line 472): a timedelta of zero is false as None is.
Truthy(past) == past.kind = "all" \/ (past.kind = "delta" /\ past.d # 0)

\* The timestamp of an event row: event.t of the message it was parsed from.
EventTime(row) == sent[row.id].t

\* The timestamps of the guild's events.
EventTimes(g) ==
    {EventTime(events[k]) : k \in {j \in 1..Len(events) : guild[events[j].channel] = g}}

\* db.most_recent_event(guild): the time of the guild's latest event, if any.
most_recent_event(g) ==
    IF EventTimes(g) = {} THEN None
    ELSE <<CHOOSE t \in EventTimes(g) : \A u \in EventTimes(g) : u <= t>>

\* db.get_events(guild, author, start, end, users, groups), with no filter
\* on users or groups: the event times t with start <= t < end.
get_events(g, start, end) == {t \in EventTimes(g) : start <= t /\ t < end}

\* db.get_pixel_usage(guild, start, end): the pixels of the guild's rows of
\* render_history with start <= t < end.
RECURSIVE SumUsage(_, _, _, _)
SumUsage(rows, g, start, end) ==
    IF rows = <<>> THEN 0
    ELSE (IF Head(rows).guild = g /\ start <= Head(rows).t /\ Head(rows).t < end
          THEN Head(rows).pixels ELSE 0)
         + SumUsage(Tail(rows), g, start, end)

get_pixel_usage(g, start, end) == SumUsage(render_history, g, start, end)

\* The default window going back ten minutes.
default_window_ten_minutes(recent) ==
    [start |-> recent - (10 * 60), end |-> recent]

\* Lines 493-495: the window that ends at the most recent event.
default_window(recent) ==
    [start |-> recent - (30 * 60), end |-> recent]

\* The explicit window with --end taken for the start when --start is absent.
explicit_window_from_end(start, end, now) ==
    IF start # None /\ end = None THEN [start |-> start[1], end |-> now]
    ELSE IF end # None /\ start = None THEN [start |-> end[1], end |-> end[1]]
    ELSE [start |-> start[1], end |-> end[1]]

\* Lines 496-507: --start, --end or both were passed.
explicit_window(start, end, now) ==
    IF start # None /\ end = None THEN [start |-> start[1], end |-> now]
    ELSE IF end # None /\ start = None THEN [start |-> 0, end |-> end[1]]
    ELSE [start |-> start[1], end |-> end[1]]

\* Lines 472-507: the window of a request, or None where the guild has no
\* event to end the default window at.
resolve_window(g, past, start, end, now) ==
    IF Truthy(past)
    THEN <<[start |-> IF past.kind = "all" THEN 0 ELSE now - past.d, end |-> now]>>
    ELSE IF start = None /\ end = None
    THEN IF most_recent_event(g) = None THEN None
         ELSE <<default_window(most_recent_event(g)[1])>>
    ELSE <<explicit_window(start, end, now)>>

\* What becomes of a request, with the events read before the range is
\* looked at.
render_outcome_queries_first(g, window, pixels) ==
    IF window = None THEN "no_events"
    ELSE IF get_events(g, window[1].start, window[1].end) = {} THEN "no_events"
    ELSE IF window[1].end < window[1].start THEN "bad_range"
    ELSE IF pixels > PIXEL_LIMIT_VIDEO THEN "too_large"
    ELSE IF get_pixel_usage(g, clock - DAY, clock) > PIXEL_LIMIT_DAY
    THEN "over_day_limit"
    ELSE "rendering"

\* What becomes of a request, with a cost at the limit refused.
render_outcome_at_limit(g, window, pixels) ==
    IF window = None THEN "no_events"
    ELSE IF window[1].end < window[1].start THEN "bad_range"
    ELSE IF get_events(g, window[1].start, window[1].end) = {} THEN "no_events"
    ELSE IF pixels >= PIXEL_LIMIT_VIDEO THEN "too_large"
    ELSE IF get_pixel_usage(g, clock - DAY, clock) > PIXEL_LIMIT_DAY
    THEN "over_day_limit"
    ELSE "rendering"

\* Lines 472-559: what becomes of a request.
render_outcome(g, window, pixels) ==
    IF window = None THEN "no_events"
    ELSE IF window[1].end < window[1].start THEN "bad_range"
    ELSE IF get_events(g, window[1].start, window[1].end) = {} THEN "no_events"
    ELSE IF pixels > PIXEL_LIMIT_VIDEO THEN "too_large"
    ELSE IF get_pixel_usage(g, clock - DAY, clock) > PIXEL_LIMIT_DAY
    THEN "over_day_limit"
    ELSE "rendering"

\* No `.render` was issued yet.
NoRender ==
    [guild |-> "g1", past |-> [kind |-> "none", d |-> 0], start |-> None,
     end |-> None, now |-> 0, pixels |-> 0, window |-> None, outcome |-> "none"]

\* The command with the usage recorded as soon as the request is admitted.
render_recording(g, past, start, end, pixels) ==
    LET window == resolve_window(g, past, start, end, clock)
        outcome == render_outcome(g, window, pixels)
    IN rendering' =
          [rendering EXCEPT
              !.nrenders = @ + 1,
              !.last_render =
                  [guild |-> g, past |-> past, start |-> start,
                   end |-> end, now |-> clock, pixels |-> pixels,
                   window |-> window, outcome |-> outcome],
              !.render_history =
                  IF outcome = "rendering"
                  THEN Append(@, [guild |-> g, pixels |-> pixels, t |-> clock])
                  ELSE @,
              !.renders =
                  IF outcome = "rendering"
                  THEN Append(@, [guild |-> g, pixels |-> pixels])
                  ELSE @]

\* Lines 459-605: a `.render` command with these arguments, up to its answer
\* or to the point where it waits for the process that draws the video.
render(g, past, start, end, pixels) ==
    LET window == resolve_window(g, past, start, end, clock)
        outcome == render_outcome(g, window, pixels)
    IN rendering' =
          [rendering EXCEPT
              !.nrenders = @ + 1,
              !.last_render =
                  [guild |-> g, past |-> past, start |-> start,
                   end |-> end, now |-> clock, pixels |-> pixels,
                   window |-> window, outcome |-> outcome],
              !.renders =
                  IF outcome = "rendering"
                  THEN Append(@, [guild |-> g, pixels |-> pixels])
                  ELSE @]

\* A `.render` command with any arguments.
render_start ==
    /\ nrenders < MaxRenders
    /\ \E g \in Guilds, past \in Pasts, start \in Dates, end \in Dates,
          pixels \in Costs :
          render(g, past, start, end, pixels)
    /\ UNCHANGED indexing

\* The arguments of the commands issued where the admission is looked at:
\* --past all, or --start after --end.
AdmissionArgs ==
    { [past |-> [kind |-> "all", d |-> 0], start |-> None, end |-> None],
      [past |-> [kind |-> "none", d |-> 0], start |-> <<2000>>, end |-> <<500>>] }

\* A `.render` command with one of these arguments.
render_admission ==
    /\ nrenders < MaxAdmissions
    /\ \E g \in Guilds, a \in AdmissionArgs, pixels \in Costs :
          render(g, a.past, a.start, a.end, pixels)
    /\ UNCHANGED indexing

\* The list without its k-th item.
Without(q, k) == SubSeq(q, 1, k - 1) \o SubSeq(q, k + 1, Len(q))

\* Lines 606-617: the video is drawn and sent; the usage is recorded.
render_finish ==
    /\ \E k \in 1..Len(renders) :
          rendering' =
             [rendering EXCEPT
                 !.render_history =
                     Append(@, [guild |-> renders[k].guild,
                                pixels |-> renders[k].pixels, t |-> clock]),
                 !.renders = Without(@, k)]
    /\ UNCHANGED indexing

\* Lines 605-614 raise (the drawing, or sending the video): the command
\* ends before line 616.
render_fail ==
    /\ \E k \in 1..Len(renders) :
          rendering' = [rendering EXCEPT !.renders = Without(@, k),
                                         !.nfailed = @ + 1]
    /\ UNCHANGED indexing

\* Time passes.
Tick ==
    /\ nticks < MaxTicks
    /\ \E d \in Steps :
          rendering' = [rendering EXCEPT !.nticks = @ + 1, !.clock = @ + d]
    /\ UNCHANGED indexing

\* No render was ever asked for.
RenderIdle ==
    rendering = [clock |-> 5000, render_history |-> <<>>, renders |-> <<>>,
                 nrenders |-> 0, nticks |-> 0, nfailed |-> 0,
                 last_render |-> NoRender]

\* ------------------------------------------------------------------ Init
\* After __init__ (lines 44-58), before the connection.  The database is as
\* an earlier run left it: empty, or with c1's one message indexed.
Init ==
    /\ delivered = 0
    /\ \E s \in Setups :
          /\ snitch_channels = s.snitch
          /\ readable = s.readable
          /\ guild = s.guild
    /\ \E old \in BOOLEAN :
          /\ sent = IF old THEN <<[channel |-> "c1", event |-> TRUE]>> ELSE <<>>
          /\ last_indexed_id =
                [c \in Channels |-> IF old /\ c = "c1" THEN 1 ELSE Null]
          /\ events = IF old THEN <<[channel |-> "c1", id |-> 1]>> ELSE <<>>
    /\ dirty = FALSE
    /\ defer_indexing = FALSE
    /\ indexing_queue = <<>>
    /\ ready = Task("init", <<>>)
    /\ cmd = Task("idle", <<>>)
    /\ ncmds = 0
    /\ enqueued = <<>>
    /\ drained = <<>>
    /\ live = <<>>
    /\ RenderIdle
    /\ reindex = ReindexIdle

Next ==
    \/ Send
    \/ on_message
    \/ on_ready_start
    \/ on_ready_defer
    \/ on_ready_scan
    \/ on_ready_newest
    \/ on_ready_write
    \/ on_ready_drain
    \/ on_ready_live
    \/ index_start
    \/ index_scan
    \/ index_newest
    \/ index_write

Spec == Init /\ [][Next]_vars

\* ------------------------------------------------------ the render command
\* The event times of the table the render commands find: none, one event,
\* two events less or more than the default window apart.
EventLogs == {<<>>, <<1000>>, <<400, 1000>>, <<1000, 4000>>}

\* The bot is live, c1 of guild g1 is indexed up to its newest message and
\* every message of it is an event.
InitRender ==
    /\ snitch_channels = Channels /\ readable = Channels
    /\ guild = [c \in Channels |-> "g1"]
    /\ \E log \in EventLogs :
          /\ sent = [k \in 1..Len(log) |->
                       [channel |-> "c1", event |-> TRUE, t |-> log[k]]]
          /\ events = [k \in 1..Len(log) |-> [channel |-> "c1", id |-> k]]
          /\ last_indexed_id = [c \in Channels |->
                                  IF c = "c1" THEN Len(log) ELSE Null]
    /\ delivered = Len(sent)
    /\ dirty = FALSE
    /\ defer_indexing = FALSE
    /\ indexing_queue = <<>>
    /\ ready = Task("done", <<>>)
    /\ cmd = Task("idle", <<>>)
    /\ ncmds = 0
    /\ enqueued = <<>>
    /\ drained = <<>>
    /\ live = <<>>
    /\ RenderIdle
    /\ reindex = ReindexIdle

NextRender ==
    \/ render_start
    \/ render_finish
    \/ render_fail
    \/ Tick

SpecRender == InitRender /\ [][NextRender]_vars

\* The render commands of AdmissionArgs alone, more of them.
NextAdmission ==
    \/ render_admission
    \/ render_finish
    \/ render_fail
    \/ Tick

SpecAdmission == InitRender /\ [][NextAdmission]_vars

\* ---------------------------------------------- `.full-reindex` at rest
\* Every history of at most n messages.
ReindexHistories(n) ==
    UNION {[1..k -> [channel : Channels, event : BOOLEAN]] : k \in 0..n}

\* The setups, and one with the two channels in two guilds.
ReindexSetups ==
    Setups \cup {[snitch |-> Channels, readable |-> Channels,
                  guild |-> [c \in Channels |->
                               IF c = "c1" THEN "g1" ELSE "g2"]]}

\* index_channel run on every channel of order from null cursors, as
\* on_ready does on its first run: the events it adds to evs.
RECURSIVE BackfillEvents(_, _)
BackfillEvents(evs, order) ==
    IF order = <<>> THEN evs
    ELSE BackfillEvents(add_events(evs, Head(order),
                                   scan(history(Head(order)), Null)),
                        Tail(order))

\* The cursors it leaves.
RECURSIVE BackfillCursors(_, _)
BackfillCursors(cur, order) ==
    IF order = <<>> THEN cur
    ELSE BackfillCursors(index_cursor(cur, Head(order),
                                      history_limit_1(Head(order))),
                         Tail(order))

\* The bot is live and at rest on a history that no longer changes; on_ready
\* has indexed the snitch channels it can read.
InitReindex ==
    /\ \E s \in ReindexSetups :
          /\ snitch_channels = s.snitch
          /\ readable = s.readable
          /\ guild = s.guild
    /\ sent \in ReindexHistories(MaxMsgs)
    /\ delivered = Len(sent)
    /\ LET order == SelectSeq(ChannelOrder,
                              LAMBDA c : c \in snitch_channels \cap readable)
       IN /\ events = BackfillEvents(<<>>, order)
          /\ last_indexed_id =
                BackfillCursors([c \in Channels |-> Null], order)
    /\ dirty = FALSE
    /\ defer_indexing = FALSE
    /\ indexing_queue = <<>>
    /\ ready = Task("done", <<>>)
    /\ cmd = Task("idle", <<>>)
    /\ ncmds = 0
    /\ enqueued = <<>>
    /\ drained = <<>>
    /\ live = <<>>
    /\ RenderIdle
    /\ reindex = ReindexIdle

\* `.full-reindex` and the backfill it starts; no message is sent meanwhile.
NextReindex ==
    \/ full_reindex
    \/ index_scan
    \/ index_newest
    \/ index_write

SpecReindex == InitReindex /\ [][NextReindex]_vars

\* ------------------------------------------------- a history request fails
\* index_channel called by on_ready: discord answers a history request (line
\* 120 or line 132) with an error.  Nothing catches it in index_channel or in
\* on_ready: the coroutine ends there, before db.commit() and before line 87.
on_ready_fail ==
    /\ ready.pc \in {"scan", "newest"}
    /\ ready' = [ready EXCEPT !.pc = "failed", !.found = <<>>]
    /\ UNCHANGED <<rendering, reindex>>
    /\ UNCHANGED <<world, database, defer_indexing, indexing_queue, cmd, ncmds,
                   histories>>

\* The same under `.index`: the command ends at the failing channel.
index_fail ==
    /\ cmd.pc \in {"scan", "newest"}
    /\ cmd' = Task("idle", <<>>)
    /\ UNCHANGED <<rendering, reindex>>
    /\ UNCHANGED <<world, database, defer_indexing, indexing_queue, ready,
                   ncmds, histories>>

\* Two readable snitch channels, so that a failure has another channel to
\* block: c1 indexed by an earlier run, c2 never indexed.
InitFail ==
    /\ Init
    /\ snitch_channels = Channels /\ readable = Channels
    /\ last_indexed_id["c1"] # Null

NextFail ==
    \/ Next
    \/ on_ready_fail
    \/ index_fail

SpecFail == InitFail /\ [][NextFail]_vars

\* ------------------------------------------------------------- scheduling
\* The event loop runs every coroutine that can run, discord answers every
\* request and the gateway dispatches every message.
OnReadyStep ==
    \/ on_ready_start
    \/ on_ready_defer
    \/ on_ready_scan
    \/ on_ready_newest
    \/ on_ready_write
    \/ on_ready_drain
    \/ on_ready_live

Fairness ==
    /\ WF_vars(OnReadyStep)
    /\ WF_vars(on_message)

\* Startup alone: `.index` reads and writes the database only, never the
\* queue, the flag or on_ready's position, and is left out here.
NextStartup ==
    \/ Send
    \/ on_message
    \/ OnReadyStep

\* Startup with every history request answered.
SpecFair == Init /\ [][NextStartup]_vars /\ Fairness

\* Startup where a history request may fail.
SpecFailFair == InitFail /\ [][NextFail]_vars /\ Fairness

\* ------------------------------------------------- the coordinator's states
\* The protocol's three states, read off on_ready's position.
DEFERRING == defer_indexing /\ ready.pc \in {"scan", "newest", "write"}
DRAINING == defer_indexing /\ ready.pc = "drain"
LIVE == ~defer_indexing /\ ready.pc = "done"

\* The ids of a sequence of ids.
Range(q) == {q[k] : k \in 1..Len(q)}

\* The channel has a row in snitch_channel and a cursor that is not null.
Indexed(c) == c \in snitch_channels /\ last_indexed_id[c] # Null

\* Nothing is in flight: every message dispatched, the queue empty, on_ready
\* finished and no command running.
AtRest ==
    /\ ready.pc = "done" /\ cmd.pc = "idle"
    /\ delivered = Len(sent) /\ indexing_queue = <<>>

\* --------------------------------------------------------------- claims

\* C1: once the queue is drained and the coordinator is live (and no `.index`
\* command was ever issued), every message that arrived while on_ready was
\* backfilling, matches the grammar and lies in an indexed channel has exactly
\* one event, as it would had the messages been processed one at a time.
C1_RaceFreeStartup ==
    (LIVE /\ ncmds = 0) =>
        \A i \in Range(enqueued) :
            (Indexed(sent[i].channel) /\ Parses(i)) =>
                EventCount(sent[i].channel, i) = 1

\* C2: the event table holds at most one event for any (channel, message id).
C2_NoDuplicateEvents ==
    \A i \in Ids : EventCount(sent[i].channel, i) <= 1

\* C3: no step replaces a cursor that is not null by a smaller message id.
C3_CursorMonotonic ==
    [][\A c \in Channels :
          last_indexed_id[c] # Null => last_indexed_id'[c] >= last_indexed_id[c]]_vars

\* C4: a cursor C that is not null means every message of the channel with
\* id <= C was scanned, so each one that matches the grammar has an event.
\* Stated for the states at rest, where no scan and no message is in flight.
C4_CursorMeansScanned ==
    AtRest =>
        \A i \in Ids :
            (Indexed(sent[i].channel) /\ i <= last_indexed_id[sent[i].channel]
             /\ Parses(i)) =>
                EventCount(sent[i].channel, i) >= 1

\* C5: a message given to maybe_index_message, by on_message or by the drain
\* loop, whose channel is no snitch channel or has a null cursor adds no
\* event and changes no cursor.
C5_NullCursorDiscards ==
    [][\A i \in Ids :
          ((live' = Append(live, i) \/ drained' = Append(drained, i))
           /\ ~Indexed(sent[i].channel)) =>
              (events' = events /\ last_indexed_id' = last_indexed_id)]_vars

\* C5's case: a matching message of a channel that is not indexed went
\* through maybe_index_message and left no event.
C5_Discarded ==
    \E i \in Range(live) \cup Range(drained) :
        ~Indexed(sent[i].channel) /\ Parses(i) /\ EventCount(sent[i].channel, i) = 0

\* C6: in DEFERRING every message that arrives is appended to the queue and
\* on_message leaves the events and the cursors alone: a step that changes
\* them there is the write of an index_channel, not a step of on_message.
C6_DeferringEnqueues ==
    [][DEFERRING =>
          /\ delivered' # delivered =>
                /\ indexing_queue' = Append(indexing_queue, delivered')
                /\ live' = live
                /\ events' = events /\ last_indexed_id' = last_indexed_id
          /\ (events' # events \/ last_indexed_id' # last_indexed_id) =>
                /\ delivered' = delivered
                /\ \/ ready.pc = "write" /\ ready' # ready
                   \/ cmd.pc = "write" /\ cmd' # cmd]_vars

\* C6's case: a matching message of an indexed channel sits in the queue
\* while the backfill runs.
C6_QueuedWhileDeferring ==
    /\ DEFERRING
    /\ \E i \in Range(indexing_queue) : Indexed(sent[i].channel) /\ Parses(i)

\* C7: the coordinator starts in DEFERRING: until the startup backfill of all
\* channels is over, no message is given to the live-processing path.
C7_StartsDeferring ==
    ready.pc \in {"init", "super", "scan", "newest", "write"} => live = <<>>

\* C8: DEFERRING, DRAINING, LIVE come in that order: a message is dequeued
\* only once every readable snitch channel is backfilled and the writes are
\* committed; once draining has begun on_ready backfills nothing more; and
\* LIVE is never left.
C8_StatesInOrder ==
    [][/\ drained' # drained =>
             /\ DRAINING
             /\ ready.todo = <<>> /\ ~dirty
             /\ (snitch_channels \cap readable) \subseteq ready.indexed
       /\ DRAINING => (DRAINING' \/ LIVE') /\ ready'.indexed = ready.indexed
       /\ LIVE => LIVE' /\ ready' = ready]_vars

\* C8's case: two channels were backfilled, then a message was drained, and
\* the coordinator is live.
C8_AllThreeVisited ==
    LIVE /\ drained # <<>> /\ Cardinality(ready.indexed) = 2

\* C9: the queue is a FIFO: the messages the drain loop has handed on, then
\* the ones still queued, are the messages on_message enqueued, in the order
\* they arrived.
C9_QueueIsFifo ==
    /\ enqueued = drained \o indexing_queue
    /\ \A j, k \in 1..Len(enqueued) : j < k => enqueued[j] < enqueued[k]

\* C9's case: two messages went through the queue.
C9_TwoDrained == Len(drained) >= 2

\* C10: the coordinator becomes LIVE only on an empty queue, the queue is
\* empty in every LIVE state, and a message arriving in LIVE goes straight
\* to maybe_index_message and is not enqueued.
C10_LiveQueueUnused ==
    /\ [](LIVE => indexing_queue = <<>>)
    /\ [][/\ (~LIVE /\ LIVE') => indexing_queue = <<>>
          /\ (LIVE /\ delivered' # delivered) =>
                /\ live' = Append(live, delivered')
                /\ indexing_queue' = <<>> /\ enqueued' = enqueued]_vars

\* C10's case: a message arrived in LIVE, after others had been queued.
C10_ArrivedWhileLive ==
    /\ LIVE /\ enqueued # <<>> /\ live # <<>>
    /\ live[Len(live)] > enqueued[Len(enqueued)]

\* C11: with every history request answered and the scheduling of Fairness,
\* the coordinator eventually becomes LIVE; every message put in the queue is
\* eventually taken out of it and given to maybe_index_message by the drain
\* loop, once and by no other path; and no message is queued in LIVE.
C11_QueueDrains ==
    /\ <>LIVE
    /\ \A i \in 1..MaxMsgs :
          (i \in Range(indexing_queue)) ~>
              (i \in Range(drained) /\ i \notin Range(indexing_queue))
    /\ [](/\ \A j, k \in 1..Len(drained) : j # k => drained[j] # drained[k]
          /\ Range(drained) \cap Range(live) = {}
          /\ Range(drained) \subseteq Range(enqueued)
          /\ LIVE => Range(enqueued) = Range(drained))

\* C11's case: the coordinator is live and the drain loop handed on a message
\* that had waited in the queue.
C11_DrainedThenLive == LIVE /\ drained # <<>> /\ indexing_queue = <<>>

\* The channel whose history request failed in on_ready, if one did.
FailedChannels ==
    IF ready.pc = "failed" THEN {Head(ready.todo).id} ELSE {}

\* C12: a history request that fails for one channel during startup leaves
\* the other channels' backfills to run: once on_ready is over, every
\* readable snitch channel but the failed one was backfilled by it, and
\* nothing it wrote is left uncommitted.
C12_OthersStillBackfilled ==
    ready.pc \in {"done", "failed"} =>
        /\ ((snitch_channels \cap readable) \ FailedChannels) \subseteq ready.indexed
        /\ ~dirty

\* C13: a backfill that fails has written nothing for its channel.  The
\* step in which a history request fails changes no cursor and no event, and
\* a backfill writes them only in its last step, after both history requests
\* were answered, when it can no longer fail.
C13_FailedBackfillWritesNothing ==
    [][/\ (ready'.pc = "failed" /\ ready.pc # "failed") =>
             (events' = events /\ last_indexed_id' = last_indexed_id)
       /\ (cmd.pc \in {"scan", "newest"} /\ cmd'.pc = "idle") =>
             (events' = events /\ last_indexed_id' = last_indexed_id)
       /\ (ready' # ready /\ (events' # events \/ last_indexed_id' # last_indexed_id)) =>
             (ready.pc = "write" /\ ready'.pc \in {"scan", "drain"})
       /\ (cmd' # cmd /\ (events' # events \/ last_indexed_id' # last_indexed_id)) =>
             (cmd.pc = "write" /\ cmd'.pc \in {"scan", "idle"})]_vars

\* C13's case: on_ready's backfill of a channel failed, and a message of the
\* channel that matches the grammar and was not indexed before has no event.
C13_FailedWithWorkToDo ==
    /\ ready.pc = "failed"
    /\ \E i \in Ids :
          /\ sent[i].channel = Head(ready.todo).id /\ Parses(i)
          /\ i > Head(ready.todo).last_indexed_id
          /\ EventCount(sent[i].channel, i) = 0

\* C14: a failed backfill is not fatal to startup: whenever a history request
\* of on_ready has failed, the coordinator still becomes LIVE later on, so
\* defer_indexing does not stay True for ever.
C14_FailureNotFatal == (ready.pc = "failed") ~> LIVE

\* The rows of table event that belong to a channel.
EventsOf(evs, c) == SelectSeq(evs, LAMBDA row : row.channel = c)

\* A backfill is inside index_channel.
InIndexChannel(task) == task.pc \in {"scan", "newest", "write"}

\* C15: index_channel called with cursor C (the last_indexed_id of the row
\* it was given) collects and persists no event of a message with id <= C;
\* and a backfill whose row holds the channel's present cursor, on a channel
\* whose newest message is the one at the cursor, adds no event and leaves
\* the cursor as it is.
C15_ExclusiveBoundary ==
    /\ [](\A task \in {ready, cmd} :
            task.pc \in {"newest", "write"} =>
                \A k \in 1..Len(task.found) :
                    task.found[k] > Head(task.todo).last_indexed_id)
    /\ [][/\ (ready.pc = "write" /\ ready' # ready) =>
               \A k \in (Len(events) + 1)..Len(events') :
                   events'[k].id > Head(ready.todo).last_indexed_id
          /\ (cmd.pc = "write" /\ cmd' # cmd) =>
               \A k \in (Len(events) + 1)..Len(events') :
                   events'[k].id > Head(cmd.todo).last_indexed_id]_vars
    /\ [][(cmd.pc = "write" /\ cmd' # cmd) =>
            LET row == Head(cmd.todo) IN
            (/\ row.last_indexed_id # Null
             /\ row.last_indexed_id = last_indexed_id[row.id]
             /\ history_limit_1(row.id) = <<row.last_indexed_id>>) =>
                (events' = events /\ last_indexed_id' = last_indexed_id)]_vars

\* C15's case: `.index` is about to write for a channel backfilled before:
\* its row holds the cursor, the newest message is the one at the cursor,
\* that message matches the grammar and has its event, and the scan found
\* nothing.
C15_RerunFindsNothing ==
    /\ cmd.pc = "write"
    /\ LET row == Head(cmd.todo) IN
       /\ row.last_indexed_id # Null
       /\ row.last_indexed_id = last_indexed_id[row.id]
       /\ history_limit_1(row.id) = <<row.last_indexed_id>>
       /\ Parses(row.last_indexed_id)
       /\ EventCount(row.id, row.last_indexed_id) = 1
       /\ cmd.found = <<>>

\* The newest message of a channel, as a list of at most one id.
NewestOf(c) ==
    LET S == {i \in Ids : sent[i].channel = c} IN
    IF S = {} THEN <<>> ELSE <<CHOOSE i \in S : \A j \in S : j <= i>>

\* C16: the newest-message lookup of a backfill yields the newest message
\* of the channel at that moment, matching or not, and the write that ends
\* the backfill sets the cursor to it; with no message in the channel the
\* cursor is left as it was.
C16_CursorAtNewest ==
    [][/\ (ready.pc = "newest" /\ ready' # ready) =>
             ready'.newest = NewestOf(Head(ready.todo).id)
       /\ (cmd.pc = "newest" /\ cmd' # cmd) =>
             cmd'.newest = NewestOf(Head(cmd.todo).id)
       /\ (ready.pc = "write" /\ ready' # ready) =>
             LET c == Head(ready.todo).id IN
             last_indexed_id'[c] = IF ready.newest = <<>> THEN last_indexed_id[c]
                                   ELSE ready.newest[1]
       /\ (cmd.pc = "write" /\ cmd' # cmd) =>
             LET c == Head(cmd.todo).id IN
             last_indexed_id'[c] = IF cmd.newest = <<>> THEN last_indexed_id[c]
                                   ELSE cmd.newest[1]]_vars

\* C16's case: a backfill is over and left the cursor of a channel with two
\* messages at the newest one, which does not match the grammar.
C16_CursorAtUnmatched ==
    \E c \in Channels :
        /\ c \in ready.indexed /\ Indexed(c)
        /\ ~Parses(last_indexed_id[c])
        /\ NewestOf(c) = <<last_indexed_id[c]>>
        /\ Len(history(c)) = 2

\* C17: two backfills of one channel do not interleave, so together they
\* leave what they would leave run one after the other: with no message
\* gone through maybe_index_message, so that backfills alone wrote the
\* table, no message has two events.
C17_BackfillsSerialized ==
    (live = <<>> /\ drained = <<>>) =>
        \A i \in Ids : EventCount(sent[i].channel, i) <= 1

\* C18: in LIVE, while `.index` holds the row of a channel (its cursor read,
\* its write not yet done), no step of live processing changes that
\* channel's cursor or adds an event for it.
C18_SingleWriter ==
    [][(LIVE /\ InIndexChannel(cmd) /\ live' # live) =>
          \A k \in 1..Len(cmd.todo) :
              LET c == cmd.todo[k].id IN
              /\ last_indexed_id'[c] = last_indexed_id[c]
              /\ EventsOf(events', c) = EventsOf(events, c)]_vars

\* The latest `.render` was given no --past and got a window.
Resolved == last_render.outcome # "none" /\ ~Truthy(last_render.past)
              /\ last_render.window # None

\* C19: without --past, the window of a request is: with neither --start
\* nor --end, the 30 minutes (1800 seconds) up to the guild's most recent
\* event; with --start alone, from it to the present time; with --end
\* alone, from 0 to it; with both, from --start to --end.  With neither and
\* no event in the guild there is no window.
C19_WindowResolution ==
    (last_render.outcome # "none" /\ ~Truthy(last_render.past)) =>
        LET r == last_render
            recent == most_recent_event(r.guild)
        IN IF r.start = None /\ r.end = None
           THEN IF recent = None THEN r.window = None
                ELSE /\ r.window # None
                     /\ r.window[1].end = recent[1]
                     /\ r.window[1].start = recent[1] - 1800
           ELSE /\ r.window # None
                /\ r.window[1].start =
                      IF r.start # None THEN r.start[1] ELSE 0
                /\ r.window[1].end =
                      IF r.end # None THEN r.end[1] ELSE r.now

\* C19's case: a request with --start alone, made after the clock had
\* advanced, got the window from --start to that time.
C19_OnlyStartGiven ==
    /\ Resolved
    /\ last_render.start # None /\ last_render.end = None
    /\ last_render.now > 5000
    /\ last_render.window[1].end = last_render.now

\* The latest `.render` had neither --past, --start nor --end, in a guild
\* whose most recent event is at t = 1000.
DefaultAt1000 ==
    /\ Resolved
    /\ last_render.start = None /\ last_render.end = None
    /\ most_recent_event(last_render.guild) = <<1000>>

\* C20 as stated: with the most recent event at t = 1000 and no explicit
\* range, the window starts at 400 and ends at 1000.
C20_WindowFrom400 ==
    DefaultAt1000 =>
        (last_render.window[1].start = 400 /\ last_render.window[1].end = 1000)

\* C20: with the most recent event at t = 1000 and no explicit range, the
\* window starts at 1000 - 30 * 60 = -800 and ends at 1000.
C20_WindowFromMinus800 ==
    DefaultAt1000 =>
        (last_render.window[1].start = -800 /\ last_render.window[1].end = 1000)

\* C20's case: such a request was made, and the event at t = 400 lies in
\* its window.
C20_DefaultWindowTaken ==
    /\ DefaultAt1000
    /\ 400 \in get_events(last_render.guild, last_render.window[1].start,
                           last_render.window[1].end)

\* A `.render` command is issued in this step.
RenderIssued == nrenders' # nrenders

\* C21: a request whose window ends before it starts is refused for that,
\* whatever the guild's events are: it is not answered as a request without
\* events, no render is started and no usage is recorded.
C21_InvalidRangeRejected ==
    [][RenderIssued =>
          LET r == last_render' IN
          (r.window # None /\ r.window[1].end < r.window[1].start) =>
              /\ r.outcome = "bad_range"
              /\ renders' = renders
              /\ render_history' = render_history]_vars

\* C21's case: a request with --start after --end, in a guild without any
\* event, was refused for its range.
C21_RefusedForRange ==
    /\ last_render.outcome = "bad_range"
    /\ last_render.start = <<2000>> /\ last_render.end = <<500>>
    /\ EventTimes(last_render.guild) = {}

\* C22: a request whose cost, added to the guild's usage of the last 24
\* hours, exceeds PIXEL_LIMIT_DAY is not admitted, and the usage history is
\* left as it is.
C22_PerDayAdmission ==
    [][RenderIssued =>
          LET r == last_render' IN
          (get_pixel_usage(r.guild, clock - DAY, clock) + r.pixels
              > PIXEL_LIMIT_DAY) =>
              (r.outcome # "rendering" /\ render_history' = render_history)]_vars

\* The request has a window that holds events: it got to the cost checks.
Costed(r) ==
    /\ r.window # None
    /\ r.window[1].end >= r.window[1].start
    /\ get_events(r.guild, r.window[1].start, r.window[1].end) # {}

\* C23: a request that gets to the cost checks is refused as too large
\* exactly when its cost is greater than PIXEL_LIMIT_VIDEO: a cost at the
\* limit is not, and a greater one is refused as too large whatever the
\* guild's usage, with no render started.
C23_PerRequestAdmission ==
    [][RenderIssued =>
          LET r == last_render' IN
          Costed(r) =>
              /\ (r.outcome = "too_large") <=> (r.pixels > PIXEL_LIMIT_VIDEO)
              /\ r.outcome = "too_large" =>
                    (renders' = renders /\ render_history' = render_history)]_vars

\* C23's case: a request above the limit was refused as too large at a time
\* when the guild's usage was above PIXEL_LIMIT_DAY as well.
C23_TooLargeWhileOverDay ==
    /\ last_render.outcome = "too_large"
    /\ clock = last_render.now
    /\ get_pixel_usage(last_render.guild, clock - DAY, clock) > PIXEL_LIMIT_DAY

\* C24: the usage history changes only when a render completes, by one row
\* with that render's guild and cost and the time of completion; issuing a
\* request, admitted or refused at whatever check, and a render that fails
\* leave it as it is.
C24_UsageOnCompletion ==
    [][/\ RenderIssued => render_history' = render_history
       /\ nfailed' # nfailed => render_history' = render_history
       /\ render_history' # render_history =>
             \E k \in 1..Len(renders) :
                /\ render_history' =
                      Append(render_history, [guild |-> renders[k].guild,
                                              pixels |-> renders[k].pixels,
                                              t |-> clock])
                /\ renders' = Without(renders, k)]_vars

\* C24's case: one render completed and was recorded, another failed, and
\* the latest request was refused; the history holds the one row.
C24_OneRecordedOthersNot ==
    /\ Len(render_history) = 1 /\ nfailed = 1
    /\ last_render.outcome \in {"bad_range", "no_events", "too_large"}

\* C29: the usage recorded for a guild in the 24 hours up to now is never
\* more than PIXEL_LIMIT_DAY + PIXEL_LIMIT_VIDEO.
C29_ConcurrentUsageBound ==
    \A g \in Guilds :
        get_pixel_usage(g, clock - DAY + 1, clock + 1)
            <= PIXEL_LIMIT_DAY + PIXEL_LIMIT_VIDEO

\* Message i is given to maybe_index_message in this step, by on_message or
\* by the drain loop.
LiveProcessed(i) == live' = Append(live, i) \/ drained' = Append(drained, i)

\* C27: maybe_index_message on a message that matches the grammar, in a
\* snitch channel whose cursor is not null, appends one event for it and
\* sets that channel's cursor to its id; the other cursors stay.
C27_LiveIndexesMatch ==
    [][\A i \in Ids :
          (LiveProcessed(i) /\ Indexed(sent[i].channel) /\ Parses(i)) =>
              /\ events' = Append(events, [channel |-> sent[i].channel, id |-> i])
              /\ last_indexed_id'[sent[i].channel] = i
              /\ \A c \in Channels \ {sent[i].channel} :
                    last_indexed_id'[c] = last_indexed_id[c]]_vars

\* C27's case: a matching message was processed live in one indexed channel
\* while the other channel was indexed too; it has its one event and its
\* channel's cursor, the other cursor is elsewhere.
C27_LiveEventIndexed ==
    \E i \in Range(live) :
        LET c == sent[i].channel IN
        /\ Parses(i) /\ Indexed(c)
        /\ last_indexed_id[c] = i /\ EventCount(c, i) = 1
        /\ \E o \in Channels \ {c} : Indexed(o) /\ last_indexed_id[o] # i

\* C28: maybe_index_message on a message that does not match the grammar
\* adds no event and changes no cursor.
C28_LiveIgnoresNoMatch ==
    [][\A i \in Ids :
          (LiveProcessed(i) /\ ~Parses(i)) =>
              (events' = events /\ last_indexed_id' = last_indexed_id)]_vars

\* C28's case: a message that does not match went through
\* maybe_index_message in an indexed channel, whose cursor is still below it.
C28_NoMatchPassed ==
    \E i \in Range(live) \cup Range(drained) :
        /\ ~Parses(i) /\ Indexed(sent[i].channel)
        /\ last_indexed_id[sent[i].channel] < i

\* C30: `.index` in a guild with a snitch channel the bot cannot read, or
\* with no snitch channel, returns before any backfill: the step that takes
\* the command changes no event and no cursor, and a command that goes on to
\* backfill is one whose guild has every snitch channel readable.
C30_IndexAllOrNothing ==
    [][ncmds' # ncmds =>
          /\ events' = events /\ last_indexed_id' = last_indexed_id
          /\ cmd'.pc # "idle" =>
                \A c \in snitch_channels :
                    guild[c] = guild[Head(cmd'.todo).id] => c \in readable]_vars

\* C30's case: `.index` was run where a snitch channel is unreadable, before
\* on_ready indexed any; it is over, and the message of the readable snitch
\* channel has no event and no cursor.
C30_IndexRefused ==
    /\ ncmds > 0 /\ cmd.pc = "idle"
    /\ snitch_channels \ readable # {}
    /\ ready.pc = "super"
    /\ \E i \in Ids : Parses(i) /\ sent[i].channel \in snitch_channels \cap readable
    /\ \A c \in Channels : last_indexed_id[c] = Null
    /\ events = <<>>

\* The events of guild g in a table of events, as a set.
EventSet(evs, g) ==
    {evs[k] : k \in {j \in 1..Len(evs) : guild[evs[j].channel] = g}}

\* This step is the delete and reset of a `.full-reindex -y`.
ResetStep == reindex'.n # reindex.n /\ reindex'.y

\* C25: the delete/reset step of `.full-reindex -y` in a guild leaves no
\* event of that guild and every cursor of that guild null, and leaves the
\* events and the cursors of the other guilds as they were.
C25_ResetStepFrame ==
    [][ResetStep =>
          LET g == reindex'.guild IN
          /\ EventSet(events', g) = {}
          /\ \A c \in Channels : guild[c] = g => last_indexed_id'[c] = Null
          /\ \A o \in Guilds \ {g} :
                SelectSeq(events', LAMBDA row : guild[row.channel] = o)
                    = SelectSeq(events, LAMBDA row : guild[row.channel] = o)
          /\ \A c \in Channels :
                guild[c] # g => last_indexed_id'[c] = last_indexed_id[c]]_vars

\* C25's case: just after the reset of a guild that had events and a cursor,
\* while another guild has an event and a cursor, which are still there.
C25_ResetBesideOtherGuild ==
    /\ reindex.n > 0 /\ reindex.y /\ cmd.pc = "scan"
    /\ EventSet(reindex.before, reindex.guild) # {}
    /\ EventSet(events, reindex.guild) = {}
    /\ \E o \in Guilds \ {reindex.guild} :
          /\ EventSet(events, o) # {}
          /\ \E c \in Channels : guild[c] = o /\ last_indexed_id[c] # Null

\* C26: once `.full-reindex -y` is over and the history has not changed, the
\* guild has the events it had before the command.
C26_ReindexRoundTrip ==
    (reindex.n > 0 /\ reindex.y /\ cmd.pc = "idle") =>
        EventSet(events, reindex.guild) = EventSet(reindex.before, reindex.guild)

====
